---------------------------- MODULE Spec2Model ----------------------------
(***************************************************************************)
(* Model of the dashboard assistant of React_Dashboard: the local          *)
(* natural-language interpreter (resolveParams, interpretQuery), the       *)
(* remote delegate (callOpenAI), the chat component (send, sendChip), the  *)
(* dashboard's action handler, its legend and its settings panel.          *)
(*                                                                         *)
(* Query texts are TLA+ strings; TLC evaluates Len, SubSeq and \o on them, *)
(* so that the regular expressions of the source are matched character by  *)
(* character.                                                              *)
(***************************************************************************)
EXTENDS Naturals, Sequences, FiniteSets, TLC

(***************************************************************************)
(* Characters and strings                                                  *)
(***************************************************************************)

LowerLetters ==
  {"a","b","c","d","e","f","g","h","i","j","k","l","m",
   "n","o","p","q","r","s","t","u","v","w","x","y","z"}

UpperToLower ==
  [c \in {"A","B","C","D","E","F","G","H","I","J","K","L","M",
          "N","O","P","Q","R","S","T","U","V","W","X","Y","Z"} |->
     CASE c = "A" -> "a" [] c = "B" -> "b" [] c = "C" -> "c" [] c = "D" -> "d"
       [] c = "E" -> "e" [] c = "F" -> "f" [] c = "G" -> "g" [] c = "H" -> "h"
       [] c = "I" -> "i" [] c = "J" -> "j" [] c = "K" -> "k" [] c = "L" -> "l"
       [] c = "M" -> "m" [] c = "N" -> "n" [] c = "O" -> "o" [] c = "P" -> "p"
       [] c = "Q" -> "q" [] c = "R" -> "r" [] c = "S" -> "s" [] c = "T" -> "t"
       [] c = "U" -> "u" [] c = "V" -> "v" [] c = "W" -> "w" [] c = "X" -> "x"
       [] c = "Y" -> "y" [] c = "Z" -> "z"]

Digits == {"0","1","2","3","4","5","6","7","8","9"}

\* \w of a JavaScript regular expression: [A-Za-z0-9_]
IsWordChar(c) == c \in LowerLetters \cup DOMAIN UpperToLower \cup Digits \cup {"_"}

\* \s of a JavaScript regular expression, over the characters of the model
IsSpace(c) == c \in {" ", "\t"}

CharAt(s, i) == SubSeq(s, i, i)

\* String.prototype.toLowerCase
RECURSIVE toLowerCase(_)
toLowerCase(s) ==
  IF Len(s) = 0 THEN ""
  ELSE LET c == CharAt(s, 1)
       IN  (IF c \in DOMAIN UpperToLower THEN UpperToLower[c] ELSE c)
             \o toLowerCase(SubSeq(s, 2, Len(s)))

\* String.prototype.trim
\* String.prototype.trimStart: what trim would be if it left the trailing
\* white space in place (C9 tells the two apart)
trimStart(s) ==
  LET firsts == {i \in 1..Len(s) : ~IsSpace(CharAt(s, i))}
  IN  IF firsts = {} THEN ""
      ELSE SubSeq(s, CHOOSE i \in firsts : \A j \in firsts : i <= j, Len(s))

trim(s) ==
  LET nonSpace == {i \in 1..Len(s) : ~IsSpace(CharAt(s, i))}
  IN  IF nonSpace = {} THEN ""
      ELSE LET lo == CHOOSE i \in nonSpace : \A j \in nonSpace : i <= j
               hi == CHOOSE i \in nonSpace : \A j \in nonSpace : i >= j
           IN  SubSeq(s, lo, hi)

\* String.prototype.includes
includes(s, sub) ==
  \E i \in 1..(Len(s) + 1) :
    i + Len(sub) - 1 <= Len(s) /\ SubSeq(s, i, i + Len(sub) - 1) = sub

(***************************************************************************)
(* Regular expressions without flags, as the source writes them.  A        *)
(* pattern is a tree; Ends(re, s, i) is the set of positions at which a    *)
(* match of re that starts after the first i characters of s can end.      *)
(***************************************************************************)

Lit(str)  == [t |-> "lit", s |-> str]
Alt(res)  == [t |-> "alt", rs |-> res]
Cat(res)  == [t |-> "cat", rs |-> res]
Opt(re)   == [t |-> "opt", r |-> re]
Star(cls) == [t |-> "star", c |-> cls]      \* cls*: "space", "any"
Plus(cls) == [t |-> "plus", c |-> cls]      \* cls+
Cls(cls)  == [t |-> "cls", c |-> cls]       \* one character of cls
WB        == [t |-> "wb"]                   \* \b

InClass(cls, c) ==
  CASE cls = "space" -> IsSpace(c)
    [] cls = "digit" -> c \in Digits
    [] cls = "any"   -> c # "\n"

\* \b holds between characters p and p+1 (0 and Len(s) are the two ends)
AtWordBoundary(s, p) ==
  LET before == p >= 1 /\ IsWordChar(CharAt(s, p))
      after  == p < Len(s) /\ IsWordChar(CharAt(s, p + 1))
  IN  before # after

\* the positions reachable from i over characters of cls only
RunEnds(cls, s, i) ==
  {j \in i..Len(s) : \A k \in (i + 1)..j : InClass(cls, CharAt(s, k))}

RECURSIVE Ends(_, _, _)
RECURSIVE EndsCat(_, _, _, _)
Ends(re, s, i) ==
  CASE re.t = "lit"  -> IF i + Len(re.s) <= Len(s) /\ SubSeq(s, i + 1, i + Len(re.s)) = re.s
                        THEN {i + Len(re.s)} ELSE {}
    [] re.t = "alt"  -> UNION {Ends(re.rs[k], s, i) : k \in 1..Len(re.rs)}
    [] re.t = "cat"  -> EndsCat(re.rs, 1, s, {i})
    [] re.t = "opt"  -> {i} \cup Ends(re.r, s, i)
    [] re.t = "star" -> RunEnds(re.c, s, i)
    [] re.t = "plus" -> RunEnds(re.c, s, i) \ {i}
    [] re.t = "cls"  -> IF i < Len(s) /\ InClass(re.c, CharAt(s, i + 1)) THEN {i + 1} ELSE {}
    [] re.t = "wb"   -> IF AtWordBoundary(s, i) THEN {i} ELSE {}
EndsCat(rs, k, s, from) ==
  IF k > Len(rs) \/ from = {} THEN from
  ELSE EndsCat(rs, k + 1, s, UNION {Ends(rs[k], s, i) : i \in from})

MatchesAt(re, s, i) == Ends(re, s, i) # {}

\* RegExp.prototype.test
test(re, s) == \E i \in 0..Len(s) : MatchesAt(re, s, i)

\* String.prototype.match(/pre(alt1|alt2|...)post/)[1]: the group of the
\* leftmost match, the earliest alternative that lets the rest match; "" for null
matchGroup(pre, alts, post, s) ==
  LET whole(k) == Cat(<<pre, Lit(alts[k]), post>>)
      starts   == {i \in 0..Len(s) : \E k \in 1..Len(alts) : MatchesAt(whole(k), s, i)}
  IN  IF starts = {} THEN ""
      ELSE LET i0 == CHOOSE i \in starts : \A j \in starts : i <= j
               k0 == CHOOSE k \in 1..Len(alts) :
                       /\ MatchesAt(whole(k), s, i0)
                       /\ \A m \in 1..(k - 1) : ~MatchesAt(whole(m), s, i0)
           IN  alts[k0]

(***************************************************************************)
(* Parameter catalogue and alias table                                     *)
(***************************************************************************)

\* PARAMS.map(p => p.id): the 5 catalogue identifiers, in catalogue order
PARAM_IDS == <<"tubing", "a_ann", "b_ann", "flowline_p", "flowline_t">>

\* the keys of PARAM_ALIASES in insertion order (Object.keys), with their values
PARAM_ALIASES ==
  << <<"tubing", "tubing">>, <<"tubing pressure", "tubing">>,
     <<"tub", "tubing">>, <<"tbg", "tubing">>,
     <<"a_ann", "a_ann">>, <<"a-ann", "a_ann">>, <<"a ann", "a_ann">>,
     <<"a-annulus", "a_ann">>, <<"a annulus", "a_ann">>, <<"aann", "a_ann">>,
     <<"b_ann", "b_ann">>, <<"b-ann", "b_ann">>, <<"b ann", "b_ann">>,
     <<"b-annulus", "b_ann">>, <<"b annulus", "b_ann">>, <<"bann", "b_ann">>,
     <<"flowline_p", "flowline_p">>, <<"flowline pressure", "flowline_p">>,
     <<"fl pressure", "flowline_p">>, <<"fl press", "flowline_p">>,
     <<"flowline p", "flowline_p">>, <<"flp", "flowline_p">>,
     <<"fl-line pressure", "flowline_p">>,
     <<"flowline_t", "flowline_t">>, <<"flowline temperature", "flowline_t">>,
     <<"fl temperature", "flowline_t">>, <<"fl temp", "flowline_t">>,
     <<"flowline t", "flowline_t">>, <<"flt", "flowline_t">>,
     <<"fl-line temperature", "flowline_t">>, <<"temperature", "flowline_t">>,
     <<"temp", "flowline_t">> >>

PRESSURE_PARAMS == <<"tubing", "a_ann", "b_ann", "flowline_p">>

PARAM_LABELS ==
  [pid \in {"tubing", "a_ann", "b_ann", "flowline_p", "flowline_t"} |->
     CASE pid = "tubing"     -> "Tubing Pressure"
       [] pid = "a_ann"      -> "A-Ann Pressure"
       [] pid = "b_ann"      -> "B-Ann Pressure"
       [] pid = "flowline_p" -> "Flowline Pressure"
       [] pid = "flowline_t" -> "Flowline Temperature"]

\* Array.prototype.includes
SeqIncludes(seq, e) == \E i \in 1..Len(seq) : seq[i] = e

\* Array.prototype.filter on a sequence of <<alias, id>> pairs, by alias length
RECURSIVE OfLength(_, _, _)
OfLength(pairs, n, k) ==
  IF k > Len(pairs) THEN <<>>
  ELSE (IF Len(pairs[k][1]) = n THEN <<pairs[k]>> ELSE <<>>) \o OfLength(pairs, n, k + 1)

\* Object.keys(PARAM_ALIASES).sort((a, b) => b.length - a.length): longest
\* alias first; Array.prototype.sort is stable, so aliases of one length keep
\* their insertion order
RECURSIVE SortedFrom(_, _)
SortedFrom(pairs, n) ==
  IF n = 0 THEN <<>> ELSE OfLength(pairs, n, 1) \o SortedFrom(pairs, n - 1)

\* the aliases without the sort of resolveParams (C8 tells the two apart)
insertionOrderAliases == PARAM_ALIASES

sortedAliases ==
  LET longest == CHOOSE n \in {Len(PARAM_ALIASES[k][1]) : k \in 1..Len(PARAM_ALIASES)} :
                   \A k \in 1..Len(PARAM_ALIASES) : Len(PARAM_ALIASES[k][1]) <= n
  IN  SortedFrom(PARAM_ALIASES, longest)

\* the loop of resolveParams with found.unshift in place of found.push (C10
\* tells the two apart)
RECURSIVE resolveFromUnshift(_, _, _, _)
resolveFromUnshift(sorted, q, k, found) ==
  IF k > Len(sorted) THEN found
  ELSE resolveFromUnshift(sorted, q, k + 1,
         IF includes(q, sorted[k][1]) /\ ~SeqIncludes(found, sorted[k][2])
         THEN <<sorted[k][2]>> \o found ELSE found)

\* the loop of resolveParams without the found.includes test (C23 tells the
\* two apart)
RECURSIVE resolveFromEveryHit(_, _, _, _)
resolveFromEveryHit(sorted, q, k, found) ==
  IF k > Len(sorted) THEN found
  ELSE resolveFromEveryHit(sorted, q, k + 1,
         IF includes(q, sorted[k][1]) THEN Append(found, sorted[k][2]) ELSE found)

\* the loop of resolveParams over sorted[k..], with found as accumulated so far
RECURSIVE resolveFrom(_, _, _, _)
resolveFrom(sorted, q, k, found) ==
  IF k > Len(sorted) THEN found
  ELSE resolveFrom(sorted, q, k + 1,
         IF includes(q, sorted[k][1]) /\ ~SeqIncludes(found, sorted[k][2])
         THEN Append(found, sorted[k][2]) ELSE found)

\* resolveParams if a query naming no parameter meant all of them (C11 tells
\* the two apart)
resolveParamsOrAll(q) ==
  LET found == resolveFrom(sortedAliases, q, 1, <<>>)
  IN  IF Len(found) = 0 THEN PARAM_IDS ELSE found

resolveParams(q) == resolveFrom(sortedAliases, q, 1, <<>>)

(***************************************************************************)
(* The local interpreter                                                   *)
(***************************************************************************)

AltLits(strs) == Alt([k \in 1..Len(strs) |-> Lit(strs[k])])

\* /switch|change|use|set|convert|make/ and /chart|graph|plot|type|view/
reChartVerb == AltLits(<<"switch", "change", "use", "set", "convert", "make">>)
reChartNoun == AltLits(<<"chart", "graph", "plot", "type", "view">>)

\* /\b(live|real.?time|realtime|real time|now)\b/
reLive ==
  Cat(<<WB,
        Alt(<<Lit("live"),
              Cat(<<Lit("real"), Opt(Cls("any")), Lit("time")>>),
              Lit("realtime"), Lit("real time"), Lit("now")>>),
        WB>>)

\* /history/
reHistoryWord == Lit("history")

\* N\s*h(our)? for the N of a live window
HourCount(n) == Cat(<<Lit(n), Star("space"), Lit("h"), Opt(Lit("our"))>>)

\* /\b(1\s*h(our)?|12\s*h(our)?|24\s*h(our)?)\b/
reLiveMatch == Cat(<<WB, Alt(<<HourCount("1"), HourCount("12"), HourCount("24")>>), WB>>)

\* /last\s+(1|12|24)/
reLastN == Cat(<<Lit("last"), Plus("space"), AltLits(<<"1", "12", "24">>)>>)

\* /\b(histor|yesterday|week|month|past|last\s+\d)\b/
reHistory ==
  Cat(<<WB,
        Alt(<<Lit("histor"), Lit("yesterday"), Lit("week"), Lit("month"), Lit("past"),
              Cat(<<Lit("last"), Plus("space"), Cls("digit")>>)>>),
        WB>>)

\* /yesterday/, /1\s*month|30\s*day|monthly/, /1\s*week|7\s*day|weekly/
reYesterday == Lit("yesterday")
reMonth ==
  Alt(<<Cat(<<Lit("1"), Star("space"), Lit("month")>>),
        Cat(<<Lit("30"), Star("space"), Lit("day")>>), Lit("monthly")>>)
reWeek ==
  Alt(<<Cat(<<Lit("1"), Star("space"), Lit("week")>>),
        Cat(<<Lit("7"), Star("space"), Lit("day")>>), Lit("weekly")>>)

\* /\b24\s*h(our)?s?\b/, /\b12\s*h(our)?s?\b/, /\b1\s*h(our)?\b/
re24h == Cat(<<WB, HourCount("24"), Opt(Lit("s")), WB>>)
re12h == Cat(<<WB, HourCount("12"), Opt(Lit("s")), WB>>)
re1h  == Cat(<<WB, HourCount("1"), WB>>)

\* /\b(all|every(thing)?|show all|reset)\b/ and /hide|remove/
reShowAll ==
  Cat(<<WB,
        Alt(<<Lit("all"), Cat(<<Lit("every"), Opt(Lit("thing"))>>),
              Lit("show all"), Lit("reset")>>),
        WB>>)
reHideRemove == AltLits(<<"hide", "remove">>)

\* /pressure.*(only|sensor|param)|only.*(pressure|press)|pressure\s+sensor/
rePressureGroup ==
  Alt(<<Cat(<<Lit("pressure"), Star("any"), AltLits(<<"only", "sensor", "param">>)>>),
        Cat(<<Lit("only"), Star("any"), AltLits(<<"pressure", "press">>)>>),
        Cat(<<Lit("pressure"), Plus("space"), Lit("sensor")>>)>>)

\* the show words without the two \b around them (C21 tells the two apart)
reShowUnbounded == AltLits(<<"show", "display", "enable", "turn on", "on">>)

\* /\b(hide|remove|turn off|disable|off)\b/ and /\b(show|display|enable|turn on|on)\b/
reHide == Cat(<<WB, AltLits(<<"hide", "remove", "turn off", "disable", "off">>), WB>>)
reShow == Cat(<<WB, AltLits(<<"show", "display", "enable", "turn on", "on">>), WB>>)

\* /only/
reOnly == Lit("only")

\* the chart-type word taken in the order of the alternatives rather than of
\* the text (C18 tells the two apart)
chartTypeMatchByKind(q) ==
  LET kinds == <<"spline", "area", "column", "bar", "line">>
      found == {k \in 1..Len(kinds) : test(Cat(<<WB, Lit(kinds[k]), WB>>), q)}
  IN  IF found = {} THEN "" ELSE kinds[CHOOSE k \in found : \A j \in found : k <= j]

\* q.match(/\b(spline|area|column|bar|line)\b/)[1], "" when there is no match
chartTypeMatch(q) == matchGroup(WB, <<"spline", "area", "column", "bar", "line">>, WB, q)

\* q.match(/\b(1|12|24)\s*h/)[1], "" when there is no match
numMatch(q) == matchGroup(WB, <<"1", "12", "24">>, Cat(<<Star("space"), Lit("h")>>), q)

\* const ct = chartTypeMatch[1] === "bar" ? "column" : chartTypeMatch[1]
ChartTypeOf(word) == IF word = "bar" THEN "column" ELSE word

\* keyMap, and lk = numMatch ? (keyMap[numMatch[1]] ?? "1h") : "1h"
keyMap == [n \in {"1", "12", "24"} |-> n \o "h"]
LiveKeyOf(num) == IF num \in DOMAIN keyMap THEN keyMap[num] ELSE "1h"

\* Array.prototype.join
RECURSIVE join(_, _)
join(strs, sep) ==
  IF Len(strs) = 0 THEN ""
  ELSE IF Len(strs) = 1 THEN strs[1]
  ELSE strs[1] \o sep \o join(Tail(strs), sep)

\* resolved.map(pid => PARAM_LABELS[pid] ?? pid).join(", ")
LabelOf(pid) == IF pid \in DOMAIN PARAM_LABELS THEN PARAM_LABELS[pid] ELSE pid
names(resolved) == join([k \in 1..Len(resolved) |-> LabelOf(resolved[k])], ", ")

FallbackReply ==
  "I didn't quite understand that. Try asking things like \"Show only pressure sensors\", \"Switch to 1-week history\", or \"Use spline chart\"."

\* the cascade without the resolved.length > 0 test of the parameter step (C6
\* tells the two apart)
stepOfUnresolved(q) ==
  IF chartTypeMatch(q) # "" /\ (test(reChartVerb, q) \/ test(reChartNoun, q))
    THEN "chartType"
  ELSE IF test(reLive, q) /\ ~test(reHistoryWord, q) THEN "live"
  ELSE IF test(reHistory, q) THEN "history"
  ELSE IF test(re24h, q) \/ test(re12h, q) \/ test(re1h, q) THEN "liveWindow"
  ELSE IF test(reShowAll, q) /\ ~test(reHideRemove, q) THEN "showAll"
  ELSE IF test(rePressureGroup, q) \/ q = "pressure" \/ q = "pressures" THEN "pressure"
  ELSE IF chartTypeMatch(q) # "" THEN "chartTypeAlone"
  ELSE "params"

\* the step of interpretQuery's cascade that returns for the lower-cased,
\* trimmed query q, named after the comment that heads it in the source
stepOf(q) ==
  IF chartTypeMatch(q) # "" /\ (test(reChartVerb, q) \/ test(reChartNoun, q))
    THEN "chartType"
  ELSE IF test(reLive, q) /\ ~test(reHistoryWord, q) THEN "live"
  ELSE IF test(reHistory, q) THEN "history"
  ELSE IF test(re24h, q) \/ test(re12h, q) \/ test(re1h, q) THEN "liveWindow"
  ELSE IF test(reShowAll, q) /\ ~test(reHideRemove, q) THEN "showAll"
  ELSE IF test(rePressureGroup, q) \/ q = "pressure" \/ q = "pressures" THEN "pressure"
  ELSE IF Len(resolveParams(q)) > 0 THEN "params"
  ELSE IF chartTypeMatch(q) # "" THEN "chartTypeAlone"
  ELSE "fallback"

One(reply, action) == [reply |-> reply, actions |-> <<action>>]

\* the history step with the tests for a week and for a month in the other
\* order (C20 tells the two apart)
historyStepWeekFirst(q) ==
  IF test(reYesterday, q)
    THEN One("Showing yesterday's data.", [type |-> "setHistKey", histKey |-> "yesterday"])
  ELSE IF test(reWeek, q)
    THEN One("Showing last 1-week history.", [type |-> "setHistKey", histKey |-> "1week"])
  ELSE IF test(reMonth, q)
    THEN One("Showing last 1-month history.", [type |-> "setHistKey", histKey |-> "1month"])
  ELSE One("Switched to history mode.", [type |-> "setMode", mode |-> "history"])

\* the body of the history step: yesterday, then a month, then a week, then
\* the mode alone
historyStep(q) ==
  IF test(reYesterday, q)
    THEN One("Showing yesterday's data.", [type |-> "setHistKey", histKey |-> "yesterday"])
  ELSE IF test(reMonth, q)
    THEN One("Showing last 1-month history.", [type |-> "setHistKey", histKey |-> "1month"])
  ELSE IF test(reWeek, q)
    THEN One("Showing last 1-week history.", [type |-> "setHistKey", histKey |-> "1week"])
  ELSE One("Switched to history mode.", [type |-> "setMode", mode |-> "history"])

Each(type, resolved) == [k \in 1..Len(resolved) |-> [type |-> type, param |-> resolved[k]]]

\* the parameter step with the test for "only" ahead of the test for a hide
\* request (C22 tells the two apart)
paramStepOnlyFirst(q) ==
  LET isHide   == test(reHide, q)
      isShow   == test(reShow, q)
      resolved == resolveParams(q)
  IN  IF test(reOnly, q)
        THEN One("Showing only: " \o names(resolved) \o ".",
                 [type |-> "showOnlyParams", params |-> resolved])
      ELSE IF isHide /\ ~isShow
        THEN [reply |-> "Hidden: " \o names(resolved) \o ".", actions |-> Each("hideParam", resolved)]
      ELSE [reply |-> "Showing: " \o names(resolved) \o ".", actions |-> Each("showParam", resolved)]

\* the parameter step going on to the second chart-type pass instead of
\* returning (C24 tells the two apart)
paramStepThenChart(q) ==
  LET isHide   == test(reHide, q)
      isShow   == test(reShow, q)
      resolved == resolveParams(q)
      chart    == IF chartTypeMatch(q) = "" THEN <<>>
                  ELSE <<[type |-> "setChartType", chartType |-> ChartTypeOf(chartTypeMatch(q))]>>
  IN  IF isHide /\ ~isShow
        THEN [reply   |-> "Hidden: " \o names(resolved) \o ".",
              actions |-> Each("hideParam", resolved) \o chart]
      ELSE IF test(reOnly, q)
        THEN [reply   |-> "Showing only: " \o names(resolved) \o ".",
              actions |-> <<[type |-> "showOnlyParams", params |-> resolved]>> \o chart]
      ELSE [reply   |-> "Showing: " \o names(resolved) \o ".",
            actions |-> Each("showParam", resolved) \o chart]

\* the body of the parameter step: a hide request gives one hideParam for
\* each resolved parameter; otherwise "only" gives one showOnlyParams of the
\* resolved parameters, and anything else one showParam for each
paramStep(q) ==
  LET isHide   == test(reHide, q)
      isShow   == test(reShow, q)
      resolved == resolveParams(q)
  IN  IF isHide /\ ~isShow
        THEN [reply |-> "Hidden: " \o names(resolved) \o ".", actions |-> Each("hideParam", resolved)]
      ELSE IF test(reOnly, q)
        THEN One("Showing only: " \o names(resolved) \o ".",
                 [type |-> "showOnlyParams", params |-> resolved])
      ELSE [reply |-> "Showing: " \o names(resolved) \o ".", actions |-> Each("showParam", resolved)]

\* the branch of interpretQuery for each step; the actions are the records the
\* source pushes, the replies its strings (its dash in the live-window reply
\* is written "--" here)
interpretStep(step, q) ==
  CASE step = "chartType" ->
         LET ct == ChartTypeOf(chartTypeMatch(q))
         IN  One("Switched to " \o ct \o " chart type.",
                 [type |-> "setChartType", chartType |-> ct])
    [] step = "live" ->
         LET lk == LiveKeyOf(numMatch(q))
         IN  IF test(reLiveMatch, q) \/ test(reLastN, q)
             THEN One("Switched to live mode -- last " \o lk \o ".",
                      [type |-> "setLiveKey", liveKey |-> lk])
             ELSE One("Switched to live (real-time) mode.",
                      [type |-> "setMode", mode |-> "realtime"])
    [] step = "history" -> historyStep(q)
    [] step = "liveWindow" ->
         IF test(re24h, q)
           THEN One("Showing last 24 hours of live data.", [type |-> "setLiveKey", liveKey |-> "24h"])
         ELSE IF test(re12h, q)
           THEN One("Showing last 12 hours of live data.", [type |-> "setLiveKey", liveKey |-> "12h"])
         ELSE One("Showing last 1 hour of live data.", [type |-> "setLiveKey", liveKey |-> "1h"])
    [] step = "showAll" ->
         One("All parameters are now visible.", [type |-> "showAllParams"])
    [] step = "pressure" ->
         One("Showing only the 4 pressure parameters.",
             [type |-> "showOnlyParams", params |-> PRESSURE_PARAMS])
    [] step = "params" -> paramStep(q)
    [] step = "chartTypeAlone" ->
         LET ct == ChartTypeOf(chartTypeMatch(q))
         IN  One("Switched to " \o ct \o " chart.", [type |-> "setChartType", chartType |-> ct])
    [] step = "fallback" ->
         [reply |-> FallbackReply, actions |-> <<>>]

interpretQuery(raw) ==
  LET q == trim(toLowerCase(raw))
  IN  interpretStep(stepOf(q), q)

(***************************************************************************)
(* The remote delegate: what the remote service can answer, and what       *)
(* callOpenAI makes of it                                                  *)
(***************************************************************************)

\* import.meta.env.VITE_OPENAI_API_KEY: <<>> when the variable is not set,
\* <<key>> when it is
NotConfiguredKeys == {<<>>, <<"">>, <<"  ">>, <<"sk-...">>, <<" sk-...your-key-here">>}
ConfiguredKeys == {<<" sk-live-1 ">>}
ApiKeys == NotConfiguredKeys \cup ConfiguredKeys

\* String.prototype.startsWith
startsWith(s, prefix) == Len(prefix) <= Len(s) /\ SubSeq(s, 1, Len(prefix)) = prefix

\* how a promise settles
Fulfilled(v) == [status |-> "fulfilled", value |-> v]
Rejected(e)  == [status |-> "rejected", reason |-> e]

\* the outcome of Response.json() or JSON.parse: a value, or a SyntaxError
Parsed(v) == [value |-> v]
SyntaxError == [throws |-> "SyntaxError"]

EmptyObject == <<>>                   \* {}
JsonNull == [jsonNull |-> TRUE]       \* null

\* a well-formed reply of the remote service, and the text that carries it
RemoteResult ==
  [reply   |-> "Done.",
   actions |-> <<[type |-> "hideParam", param |-> "b_ann"],
                 [type |-> "setChartType", chartType |-> "spline"]>>]
RemoteResultText ==
  "{\"reply\":\"Done.\",\"actions\":[{\"type\":\"hideParam\",\"param\":\"b_ann\"},{\"type\":\"setChartType\",\"chartType\":\"spline\"}]}"

\* replies of the remote service that are JSON of the expected shape but not
\* what the instructions ask for: a parameter that is not in the catalogue,
\* and a showOnlyParams without its params after another action
UnknownParamResult ==
  [reply |-> "Done.", actions |-> <<[type |-> "hideParam", param |-> "casing"]>>]
UnknownParamResultText ==
  "{\"reply\":\"Done.\",\"actions\":[{\"type\":\"hideParam\",\"param\":\"casing\"}]}"
PartialResult ==
  [reply   |-> "Done.",
   actions |-> <<[type |-> "setChartType", chartType |-> "area"],
                 [type |-> "hideParam", param |-> "tubing"],
                 [type |-> "showOnlyParams"]>>]
PartialResultText ==
  "{\"reply\":\"Done.\",\"actions\":[{\"type\":\"setChartType\",\"chartType\":\"area\"},{\"type\":\"hideParam\",\"param\":\"tubing\"},{\"type\":\"showOnlyParams\"}]}"

\* JSON.parse on the message contents the remote service of the model sends;
\* prose and a fenced block (written with ~~~ here) are not JSON
JSONparse(text) ==
  CASE text = "{}"                  -> Parsed(EmptyObject)
    [] text = "null"                -> Parsed(JsonNull)
    [] text = "{\"reply\":\"Done.\"}" -> Parsed([reply |-> "Done."])
    [] text = RemoteResultText      -> Parsed(RemoteResult)
    [] text = UnknownParamResultText -> Parsed(UnknownParamResult)
    [] text = PartialResultText     -> Parsed(PartialResult)
    [] OTHER                        -> SyntaxError

ErrorBody(code, message) == Parsed([error |-> [code |-> code, message |-> message]])
Choice(content) == [message |-> [role |-> "assistant", content |-> content]]
Completion(choices) == Parsed([id |-> "chatcmpl-1", choices |-> choices])

\* what fetch can settle with: a rejection, or a response with its status and
\* what its json() gives
NetworkError == [kind |-> "reject"]
Response(status, json) == [kind |-> "response", status |-> status, json |-> json]

\* the remote calls that fail: no connection, a rate limit, an exhausted
\* quota, other statuses outside 2xx, a body that is not JSON or has no
\* choices member, a content that is not JSON
FailedOutcomes ==
  { NetworkError,
    Response(429, ErrorBody("rate_limit_exceeded", "Rate limit reached")),
    Response(429, SyntaxError),
    Response(403, ErrorBody("insufficient_quota", "You exceeded your current quota")),
    Response(401, ErrorBody("invalid_api_key", "Incorrect API key provided")),
    Response(400, Parsed(EmptyObject)),
    Response(500, SyntaxError),
    Response(200, SyntaxError),
    Response(200, Parsed(EmptyObject)),
    Response(200, Parsed(JsonNull)),
    Response(200, Completion(<<Choice("Sure! I have hidden B-annulus.")>>)),
    Response(200, Completion(<<Choice("~~~json\n" \o RemoteResultText \o "\n~~~")>>)) }

\* the successful calls whose content is missing, or is JSON without the
\* reply and actions fields
IncompleteOutcomes ==
  { Response(200, Completion(<<>>)),
    Response(200, Completion(<<[message |-> [role |-> "assistant"]]>>)),
    Response(200, Completion(<<Choice("{}")>>)),
    Response(200, Completion(<<Choice("{\"reply\":\"Done.\"}")>>)) }

Outcomes ==
  FailedOutcomes \cup IncompleteOutcomes
    \cup { Response(200, Completion(<<Choice("null")>>)),
           Response(200, Completion(<<Choice(RemoteResultText)>>)),
           Response(200, Completion(<<Choice(PartialResultText)>>)) }

\* o.p of JavaScript for an object o: <<>> stands for undefined
Has(o, field) == o # JsonNull /\ field \in DOMAIN o

\* what the try block of callOpenAI does once fetch has settled with o:
\* [returns |-> v] or [throws |-> ...]; local is interpretQuery(userMessage)
tryBlock(o, local) ==
  IF o.kind = "reject" THEN [throws |-> "TypeError"]
  ELSE IF ~(o.status >= 200 /\ o.status <= 299)
    THEN LET err  == IF "throws" \in DOMAIN o.json THEN EmptyObject ELSE o.json.value
             code == IF Has(err, "error") /\ Has(err.error, "code")
                     THEN <<err.error.code>> ELSE <<>>
         IN  IF o.status = 429 \/ code = <<"insufficient_quota">>
             THEN [returns |-> local]
             ELSE [throws |-> "Error"]
  ELSE IF "throws" \in DOMAIN o.json THEN [throws |-> "SyntaxError"]
  ELSE LET data == o.json.value
       IN  IF ~Has(data, "choices") THEN [throws |-> "TypeError"]
           ELSE LET raw == IF /\ Len(data.choices) >= 1
                              /\ Has(data.choices[1], "message")
                              /\ Has(data.choices[1].message, "content")
                           THEN data.choices[1].message.content ELSE "{}"
                    parsed == JSONparse(raw)
                IN  IF "throws" \in DOMAIN parsed THEN [throws |-> "SyntaxError"]
                    ELSE [returns |-> parsed.value]

\* callOpenAI without its catch clause: what the try block throws rejects the
\* promise (C3 tells the two apart)
callOpenAIUncaught(o, userMessage) ==
  LET local == interpretQuery(userMessage)
      tried == tryBlock(o, local)
  IN  IF "throws" \in DOMAIN tried THEN Rejected(tried.throws) ELSE Fulfilled(tried.returns)

\* how callOpenAI settles once fetch has settled with o: the catch clause
\* turns whatever the try block throws into the local interpretation
callOpenAISettled(o, userMessage) ==
  LET local == interpretQuery(userMessage)
      tried == tryBlock(o, local)
  IN  IF "throws" \in DOMAIN tried THEN Fulfilled(local) ELSE Fulfilled(tried.returns)

(***************************************************************************)
(* The dashboard's action handler                                          *)
(***************************************************************************)

Range(seq) == {seq[k] : k \in 1..Len(seq)}

\* the switch with a hideParam that forgets the set it had (C15 tells the two
\* apart)
applyActionForgetful(a, d) ==
  CASE a.type = "showOnlyParams" ->
         IF "params" \in DOMAIN a
         THEN [d EXCEPT !.disabledParams = {id \in Range(PARAM_IDS) : id \notin Range(a.params)}]
         ELSE [d EXCEPT !.threw = TRUE]
    [] a.type = "showAllParams" -> [d EXCEPT !.disabledParams = {}]
    [] a.type = "hideParam"     -> [d EXCEPT !.disabledParams = {a.param}]
    [] a.type = "showParam"     -> [d EXCEPT !.disabledParams = @ \ {a.param}]
    [] a.type = "setMode"       -> [d EXCEPT !.mode = a.mode]
    [] a.type = "setLiveKey"    -> [d EXCEPT !.mode = "realtime", !.liveKey = a.liveKey]
    [] a.type = "setHistKey"    -> [d EXCEPT !.mode = "history", !.histKey = a.histKey]
    [] a.type = "setChartType"  -> [d EXCEPT !.chartType = a.chartType]
    [] OTHER                    -> d

\* the switch with a setLiveKey and a setHistKey that leave the mode alone
\* (C25 tells the two apart)
applyActionKeyOnly(a, d) ==
  CASE a.type = "showOnlyParams" ->
         IF "params" \in DOMAIN a
         THEN [d EXCEPT !.disabledParams = {id \in Range(PARAM_IDS) : id \notin Range(a.params)}]
         ELSE [d EXCEPT !.threw = TRUE]
    [] a.type = "showAllParams" -> [d EXCEPT !.disabledParams = {}]
    [] a.type = "hideParam"     -> [d EXCEPT !.disabledParams = @ \cup {a.param}]
    [] a.type = "showParam"     -> [d EXCEPT !.disabledParams = @ \ {a.param}]
    [] a.type = "setMode"       -> [d EXCEPT !.mode = a.mode]
    [] a.type = "setLiveKey"    -> [d EXCEPT !.liveKey = a.liveKey]
    [] a.type = "setHistKey"    -> [d EXCEPT !.histKey = a.histKey]
    [] a.type = "setChartType"  -> [d EXCEPT !.chartType = a.chartType]
    [] OTHER                    -> d

\* one case of the switch in LiveChart's onActions, on the view state d;
\* a.params!.includes throws when the action has no params
applyAction(a, d) ==
  CASE a.type = "showOnlyParams" ->
         IF "params" \in DOMAIN a
         THEN [d EXCEPT !.disabledParams = {id \in Range(PARAM_IDS) : id \notin Range(a.params)}]
         ELSE [d EXCEPT !.threw = TRUE]
    [] a.type = "showAllParams" -> [d EXCEPT !.disabledParams = {}]
    [] a.type = "hideParam"     -> [d EXCEPT !.disabledParams = @ \cup {a.param}]
    [] a.type = "showParam"     -> [d EXCEPT !.disabledParams = @ \ {a.param}]
    [] a.type = "setMode"       -> [d EXCEPT !.mode = a.mode]
    [] a.type = "setLiveKey"    -> [d EXCEPT !.mode = "realtime", !.liveKey = a.liveKey]
    [] a.type = "setHistKey"    -> [d EXCEPT !.mode = "history", !.histKey = a.histKey]
    [] a.type = "setChartType"  -> [d EXCEPT !.chartType = a.chartType]
    [] OTHER                    -> d

\* actions.forEach(...): the actions from the k-th on, until one throws
RECURSIVE onActions(_, _, _)
onActions(actions, k, d) ==
  IF k > Len(actions) \/ d.threw THEN d
  ELSE onActions(actions, k + 1, applyAction(actions[k], d))

(***************************************************************************)
(* State                                                                   *)
(***************************************************************************)

VARIABLES
  apiKey,          \* import.meta.env.VITE_OPENAI_API_KEY
  input,           \* AIChat: the text field
  messages,        \* AIChat: the transcript
  loading,         \* AIChat: a query is outstanding
  pc,              \* where send is: "idle", "fetching" (callOpenAI awaits fetch),
                   \* "settled" (callOpenAI has settled, send has not resumed)
  query,           \* send: the trimmed text of the outstanding query
  remote,          \* what fetch settled with for the outstanding query, <<>> if nothing
  result,          \* how the promise of callOpenAI has settled, <<>> before it has
  remoteCalls,     \* the number of requests fetch has sent
  lastCallFailed,  \* the latest remote call of the session failed
  usedChips,       \* AIChat: the suggestions that have been clicked
  onActionsCalls,  \* the number of times send has called onActions
  applied,         \* LiveChart: the action list its handler last ran on, <<>> if none
  hiddenBefore,    \* LiveChart: the hidden set when the handler last started
  disabledParams,  \* LiveChart: the hidden set
  mode, liveKey, histKey, chartType,   \* LiveChart: the view state
  raw,             \* the text given to interpretQuery
  q,               \* interpretQuery: raw.toLowerCase().trim()
  resolved,        \* resolveParams(q)
  step,            \* interpretQuery: the step that returns
  out,             \* interpretQuery: the value returned
  ipc,             \* where the interpretation of raw is
  now,             \* Date.now(), the clock in milliseconds
  showSettings,    \* LiveChart: the settings panel is open
  draftChartType,  \* LiveChart: the chart type selected in the panel
  paramSettings,   \* LiveChart: the axis range of each parameter
  draftParamSettings,  \* LiveChart: the axis ranges as edited in the panel
  selectorChanged  \* the chart type was selected in the panel since it opened

chatVars   == <<apiKey, input, messages, loading, pc, query, remote, result,
                remoteCalls, lastCallFailed>>
dashVars   == <<disabledParams, mode, liveKey, histKey, chartType>>
interpVars == <<raw, q, resolved, step, out, ipc>>
chipVars   == <<usedChips>>
handlerVars == <<onActionsCalls, applied, hiddenBefore>>
clockVars  == <<now>>
panelVars  == <<showSettings, draftChartType, paramSettings, draftParamSettings,
                selectorChanged>>
vars       == <<chatVars, dashVars, interpVars, chipVars, handlerVars, clockVars, panelVars>>

(***************************************************************************)
(* Bounds and inputs of the model                                          *)
(***************************************************************************)

\* the queries a session sends
MaxQueries == 2

\* what the user types into the text field
TypedTexts == {"", "  ", " Pressure", "hide tbg", "history"}

Greeting ==
  [id   |-> 0,
   role |-> "assistant",
   text |-> "Hi! I'm your AI dashboard assistant. Ask me things like \"Show only pressure readings\" or \"Switch to 1-week history\"."]

UserMessages == {k \in 1..Len(messages) : messages[k].role = "user"}

ChatInit ==
  /\ input = ""
  /\ messages = <<Greeting>>
  /\ loading = FALSE
  /\ pc = "idle"
  /\ query = ""
  /\ remote = <<>>
  /\ result = <<>>
  /\ remoteCalls = 0
  /\ lastCallFailed = FALSE
  /\ usedChips = {}
  /\ onActionsCalls = 0

\* PARAMS.map(p => [p.id, { min: p.min, max: p.max }]), in hundredths
defaultParamSettings ==
  [pid \in {"tubing", "a_ann", "b_ann", "flowline_p", "flowline_t"} |->
     CASE pid = "tubing"     -> [min |-> 13690, max |-> 13760]
       [] pid = "a_ann"      -> [min |-> 13580, max |-> 13820]
       [] pid = "b_ann"      -> [min |-> 405,   max |-> 413]
       [] pid = "flowline_p" -> [min |-> 12150, max |-> 12420]
       [] pid = "flowline_t" -> [min |-> 2200,  max |-> 2252]]

DashInit ==
  /\ disabledParams = {}
  /\ mode = "realtime"
  /\ liveKey = "1h"
  /\ histKey = "yesterday"
  /\ chartType = "line"
  /\ applied = <<>>
  /\ hiddenBefore = {}
  /\ showSettings = FALSE
  /\ draftChartType = "line"
  /\ paramSettings = defaultParamSettings
  /\ draftParamSettings = defaultParamSettings
  /\ selectorChanged = FALSE

\* the clock when the page is loaded
ClockInit == now = 1

InterpIdle ==
  /\ raw = ""
  /\ q = ""
  /\ resolved = <<>>
  /\ step = ""
  /\ out = <<>>
  /\ ipc = "off"

Init ==
  /\ apiKey \in ApiKeys
  /\ ChatInit
  /\ ClockInit
  /\ DashInit
  /\ InterpIdle

(***************************************************************************)
(* The suggestion chips                                                    *)
(***************************************************************************)

ALL_SUGGESTIONS ==
  << "Show only pressure sensors",
     "Switch to 1-week history",
     "Show flowline temperature only",
     "Switch to spline chart",
     "Show all parameters",
     "Show last 24 hours live data",
     "Switch to area chart",
     "Show yesterday's data",
     "Hide B-annulus pressure",
     "Switch to line chart",
     "Show last 12 hours",
     "Switch to column chart",
     "Show last 1 month history",
     "Show tubing pressure only",
     "Switch to realtime mode",
     "Show A-annulus and tubing only" >>

CHIPS_VISIBLE == 4

(***************************************************************************)
(* The chat component                                                      *)
(***************************************************************************)

\* the guard of callOpenAI on the key as configured, without ?.trim() (C2
\* tells the two apart)
useLocalOnlyUntrimmed ==
  \/ apiKey = <<>>
  \/ apiKey[1] = ""
  \/ startsWith(apiKey[1], "sk-...")

\* the guard of callOpenAI with a circuit breaker: after a failed call the
\* next query stays local (C5 tells the two apart)
useLocalOnlyAfterFailure ==
  \/ apiKey = <<>>
  \/ trim(apiKey[1]) = ""
  \/ startsWith(trim(apiKey[1]), "sk-...")
  \/ lastCallFailed

\* !apiKey || apiKey.startsWith("sk-..."), apiKey being the trimmed key
useLocalOnly ==
  \/ apiKey = <<>>
  \/ trim(apiKey[1]) = ""
  \/ startsWith(trim(apiKey[1]), "sk-...")

\* onChange of the text field, which is disabled while loading
TypeInput(text) ==
  /\ ~loading
  /\ input' = text
  /\ UNCHANGED <<apiKey, messages, loading, pc, query, remote, result,
                 remoteCalls, lastCallFailed, dashVars, interpVars, chipVars, handlerVars,
                 clockVars, panelVars>>

\* addMessage putting the message at the head of the transcript (C26 tells the
\* two apart)
addMessagePrepend(prev, msg) ==
  <<[f \in DOMAIN msg \cup {"id"} |-> IF f = "id" THEN now ELSE msg[f]]>> \o prev

\* the updater of addMessage(msg): [...prev, { ...msg, id: Date.now() }]
addMessage(prev, msg) ==
  Append(prev, [f \in DOMAIN msg \cup {"id"} |-> IF f = "id" THEN now ELSE msg[f]])

\* send without the test of loading in its guard (C12 tells the two apart)
sendWhileLoading(text) ==
  IF trim(text) = ""
  THEN UNCHANGED <<chatVars, dashVars, interpVars, handlerVars, clockVars, panelVars>>
  ELSE /\ Cardinality(UserMessages) < MaxQueries
       /\ input' = ""
       /\ messages' = addMessage(messages, [role |-> "user", text |-> trim(text)])
       /\ loading' = TRUE
       /\ query' = trim(text)
       /\ remote' = <<>>
       /\ IF useLocalOnly
          THEN /\ pc' = "settled"
               /\ result' = Fulfilled(interpretQuery(trim(text)))
               /\ UNCHANGED remoteCalls
          ELSE /\ pc' = "fetching"
               /\ result' = <<>>
               /\ remoteCalls' = remoteCalls + 1
       /\ UNCHANGED <<apiKey, lastCallFailed, dashVars, interpVars, handlerVars,
                      clockVars, panelVars>>

\* send without setLoading(true) (C13 tells the two apart)
sendWithoutSetLoading(text) ==
  IF trim(text) = "" \/ loading
  THEN UNCHANGED <<chatVars, dashVars, interpVars, handlerVars, clockVars, panelVars>>
  ELSE /\ Cardinality(UserMessages) < MaxQueries
       /\ input' = ""
       /\ messages' = addMessage(messages, [role |-> "user", text |-> trim(text)])
       /\ UNCHANGED loading
       /\ query' = trim(text)
       /\ remote' = <<>>
       /\ IF useLocalOnly
          THEN /\ pc' = "settled"
               /\ result' = Fulfilled(interpretQuery(trim(text)))
               /\ UNCHANGED remoteCalls
          ELSE /\ pc' = "fetching"
               /\ result' = <<>>
               /\ remoteCalls' = remoteCalls + 1
       /\ UNCHANGED <<apiKey, lastCallFailed, dashVars, interpVars, handlerVars,
                      clockVars, panelVars>>

\* send(text), up to the first await of callOpenAI: an empty text or an
\* outstanding query makes it return at once; without a usable key callOpenAI
\* resolves with the local interpretation, with one it calls fetch. What
\* becomes of usedChips is for the caller to say
send(text) ==
  IF trim(text) = "" \/ loading
  THEN UNCHANGED <<chatVars, dashVars, interpVars, handlerVars, clockVars, panelVars>>
  ELSE /\ Cardinality(UserMessages) < MaxQueries
       /\ input' = ""
       /\ messages' = addMessage(messages, [role |-> "user", text |-> trim(text)])
       /\ loading' = TRUE
       /\ query' = trim(text)
       /\ remote' = <<>>
       /\ IF useLocalOnly
          THEN /\ pc' = "settled"
               /\ result' = Fulfilled(interpretQuery(trim(text)))
               /\ UNCHANGED remoteCalls
          ELSE /\ pc' = "fetching"
               /\ result' = <<>>
               /\ remoteCalls' = remoteCalls + 1
       /\ UNCHANGED <<apiKey, lastCallFailed, dashVars, interpVars, handlerVars,
                      clockVars, panelVars>>

\* Enter in the text field, or the send button
SendInput == ~loading /\ send(input) /\ UNCHANGED usedChips

\* the chips on show: the first CHIPS_VISIBLE suggestions not yet used, or of
\* all of them when fewer than CHIPS_VISIBLE are left
visibleChips ==
  LET unused == SelectSeq(ALL_SUGGESTIONS, LAMBDA sg : sg \notin usedChips)
      pool   == IF Len(unused) >= CHIPS_VISIBLE THEN unused ELSE ALL_SUGGESTIONS
  IN  SubSeq(pool, 1, IF Len(pool) < CHIPS_VISIBLE THEN Len(pool) ELSE CHIPS_VISIBLE)

\* sendChip(text): the chip is marked used and its text sent
sendChip(text) ==
  /\ usedChips' = usedChips \cup {text}
  /\ send(text)

\* a click on one of the chips on show, which stay enabled while loading
ClickChip == \E k \in 1..Len(visibleChips) : sendChip(visibleChips[k])

\* fetch settles with o and callOpenAI runs to its return
FetchSettles(o) ==
  /\ pc = "fetching"
  /\ remote' = o
  /\ result' = callOpenAISettled(o, query)
  /\ lastCallFailed' = (o \in FailedOutcomes)
  /\ pc' = "settled"
  /\ UNCHANGED <<apiKey, input, messages, loading, query, remoteCalls, dashVars,
                 interpVars, chipVars, handlerVars,
                 clockVars, panelVars>>

\* the message send appends for the value v callOpenAI resolved with, the
\* handler having run and left the view state d
replyMessage(v, d) ==
  IF v = JsonNull
    THEN [role |-> "error", text |-> "Error: Cannot read properties of null (reading 'actions')"]
  ELSE IF d.threw
    THEN [role |-> "error", text |-> "Error: Cannot read properties of undefined (reading 'includes')"]
  ELSE [f \in {"role"} \cup (IF Has(v, "reply") THEN {"text"} ELSE {})
                \cup (IF Has(v, "actions") THEN {"actions"} ELSE {}) |->
          CASE f = "role"    -> "assistant"
            [] f = "text"    -> v.reply
            [] f = "actions" -> v.actions]

\* the test of send without .length: a list of actions, empty or not (C14
\* tells the two apart)
hasActionsList(v) == Has(v, "actions")

\* result.actions?.length of send: the result has a list of actions and the
\* list is not empty
hasActions(v) == Has(v, "actions") /\ Len(v.actions) > 0

\* send after its await: the actions go to the dashboard, the reply to the
\* transcript; a rejection and a TypeError (the result is null, or the handler
\* throws) are caught and shown as an error message; finally loading is reset
Resume ==
  /\ pc = "settled"
  /\ LET d0 == [disabledParams |-> disabledParams, mode |-> mode, liveKey |-> liveKey,
                histKey |-> histKey, chartType |-> chartType, threw |-> FALSE]
         v  == result.value
         invoked == result.status = "fulfilled" /\ hasActions(v)
         d1 == IF invoked THEN onActions(v.actions, 1, d0) ELSE d0
     IN  /\ onActionsCalls' = IF invoked THEN onActionsCalls + 1 ELSE onActionsCalls
         /\ applied' = IF invoked THEN v.actions ELSE applied
         /\ hiddenBefore' = IF invoked THEN disabledParams ELSE hiddenBefore
         /\ disabledParams' = d1.disabledParams
         /\ mode' = d1.mode
         /\ liveKey' = d1.liveKey
         /\ histKey' = d1.histKey
         /\ chartType' = d1.chartType
         /\ messages' = addMessage(messages,
                          IF result.status = "rejected"
                          THEN [role |-> "error", text |-> "Error: " \o result.reason]
                          ELSE replyMessage(v, d1))
  /\ loading' = FALSE
  /\ pc' = "idle"
  /\ query' = ""
  /\ remote' = <<>>
  /\ result' = <<>>
  /\ UNCHANGED <<apiKey, input, remoteCalls, lastCallFailed, interpVars, chipVars,
                 clockVars, panelVars>>

(***************************************************************************)
(* The interpreter on its own: a query is drawn, and interpretQuery runs   *)
(* on it, one part of its body at a time                                   *)
(***************************************************************************)

\* the words of a drawn phrase, the upper-case letters of a drawn spelling,
\* the white space around it
MaxWords == 2
MaxUpper == 2
MaxPad == 1

Words ==
  {"hide", "show", "only", "history", "tubing", "b-annulus", "pressure",
   "line", "live", "12h", "all", "use"}

RECURSIVE Phrases(_)
Phrases(n) ==
  IF n = 0 THEN {}
  ELSE IF n = 1 THEN Words
  ELSE Phrases(n - 1) \cup {p \o " " \o w : p \in Phrases(n - 1), w \in Words}

ToUpper(c) ==
  IF c \in LowerLetters THEN CHOOSE u \in DOMAIN UpperToLower : UpperToLower[u] = c ELSE c

\* the spellings of s with at most k letters in upper case
RECURSIVE Spellings(_, _)
Spellings(s, k) ==
  IF Len(s) = 0 THEN {""}
  ELSE LET c    == CharAt(s, 1)
           rest == SubSeq(s, 2, Len(s))
       IN  {c \o v : v \in Spellings(rest, k)}
             \cup (IF k > 0 THEN {ToUpper(c) \o v : v \in Spellings(rest, k - 1)} ELSE {})

\* white space of at most n characters
RECURSIVE Pads(_)
Pads(n) ==
  IF n = 0 THEN {""} ELSE Pads(n - 1) \cup {p \o c : p \in Pads(n - 1), c \in {" ", "\t"}}

\* "pressure" in mixed case, in upper case, and inside white space
PressureInputs ==
  {l \o v \o r : l \in Pads(MaxPad), r \in Pads(MaxPad),
                 v \in Spellings("pressure", MaxUpper) \cup {"PRESSURE"}}

\* queries in which "history" is the only word the interpreter knows
HistoryQueries == {"switch to history mode", "history", "history mode", "go to history"}

Examples ==
  HistoryQueries \cup
  {"flowline pressure and flowline temperature",
   "hide b-annulus and tubing",
   "Hide B-annulus pressure",
   "remove temp and flp",
   "turn off a-ann, b-ann and tbg",
   "hide tubing b-ann a-ann flp flt",
   "disable the line for tubing",
   "hide tubing and show temp",
   "Switch to 1-week history",
   "Show only pressure sensors",
   "Use spline chart",
   "show last 12 hours",
   "last 24h live",
   "xyzzy",
   "pressures",
   "",
   "hello there",
   "what can you do?",
   "line or bar chart",
   "use bar and line graph",
   "plot tubing live as area for last 1 month",
   "hide tubing in the spline view",
   "flowline and bar",
   "go live",
   "live 12h",
   "real-time 1 hour",
   "live 24 hours",
   "live last 24",
   "show live data for the last 12",
   "now show the last 1h",
   "yesterday and last 1 month",
   "weekly and monthly history",
   "1 week of last month",
   "yesterday, 1 week and 1 month",
   "past 7 days of the 30 day month",
   "last 3 weeks",
   "past data",
   "hide tubing only",
   "tubing and temp only",
   "turn off tubing and turn on temp",
   "disable b-ann but display a-ann",
   "enable flp",
   "tbg off",
   "offline tubing",
   "tubing on",
   "tubing as area",
   "remove the bar for temp",
   "a-ann b-ann",
   "b ann a ann",
   "a_ann a-ann b_ann",
   "tbg and tubing pressure",
   "fl temp, fl press, bann, aann, tub"}

RawQueries == Examples \cup Phrases(MaxWords) \cup PressureInputs \cup Range(ALL_SUGGESTIONS)

InterpInit ==
  /\ apiKey = <<>>
  /\ ChatInit
  /\ ClockInit
  /\ DashInit
  /\ raw \in RawQueries
  /\ q = ""
  /\ resolved = <<>>
  /\ step = ""
  /\ out = <<>>
  /\ ipc = "start"

\* const q = raw.toLowerCase().trim()
Normalise ==
  /\ ipc = "start"
  /\ q' = trim(toLowerCase(raw))
  /\ ipc' = "normalised"
  /\ UNCHANGED <<raw, resolved, step, out, chatVars, dashVars, chipVars, handlerVars,
                 clockVars, panelVars>>

\* const resolved = resolveParams(q), here for every query
Resolve ==
  /\ ipc = "normalised"
  /\ resolved' = resolveParams(q)
  /\ ipc' = "resolved"
  /\ UNCHANGED <<raw, q, step, out, chatVars, dashVars, chipVars, handlerVars,
                 clockVars, panelVars>>

\* the conditions of the cascade, down to the one that returns
Classify ==
  /\ ipc = "resolved"
  /\ step' = stepOf(q)
  /\ ipc' = "classified"
  /\ UNCHANGED <<raw, q, resolved, out, chatVars, dashVars, chipVars, handlerVars,
                 clockVars, panelVars>>

\* the return statement of that step
Return ==
  /\ ipc = "classified"
  /\ out' = interpretStep(step, q)
  /\ ipc' = "done"
  /\ UNCHANGED <<raw, q, resolved, step, chatVars, dashVars, chipVars, handlerVars,
                 clockVars, panelVars>>

InterpNext == Normalise \/ Resolve \/ Classify \/ Return

InterpSpec == InterpInit /\ [][InterpNext]_vars

(***************************************************************************)
(* A session with the chips: the user types, presses Enter and clicks      *)
(* chips, also while a query is outstanding                                *)
(***************************************************************************)

\* the chips a session clicks
MaxChipClicks == 2

SessionKeys == {<<>>, <<" sk-live-1 ">>}
SessionTexts == {"  ", "hide tbg"}
SessionOutcomes == {NetworkError, Response(200, Completion(<<Choice(RemoteResultText)>>))}

SessionInit ==
  /\ apiKey \in SessionKeys
  /\ ChatInit
  /\ ClockInit
  /\ DashInit
  /\ InterpIdle

SessionClickChip == Cardinality(usedChips) < MaxChipClicks /\ ClickChip

SessionNext ==
  \/ \E text \in SessionTexts : TypeInput(text)
  \/ SendInput
  \/ SessionClickChip
  \/ \E o \in SessionOutcomes : FetchSettles(o)
  \/ Resume

SessionSpec == SessionInit /\ [][SessionNext]_vars

(***************************************************************************)
(* The chips on their own: the user clicks chip after chip while the       *)
(* remote service takes its time over the first                            *)
(***************************************************************************)

ChipInit ==
  /\ apiKey \in ConfiguredKeys
  /\ ChatInit
  /\ ClockInit
  /\ DashInit
  /\ InterpIdle

ChipNext == ClickChip

ChipSpec == ChipInit /\ [][ChipNext]_vars

(***************************************************************************)
(* The dashboard's handler on its own: it is called with action lists      *)
(***************************************************************************)

\* the actions of a list
MaxActions == 2

ActionAlphabet ==
  { [type |-> "showOnlyParams", params |-> PRESSURE_PARAMS],
    [type |-> "showOnlyParams", params |-> <<"flowline_t", "tubing">>],
    [type |-> "showAllParams"],
    [type |-> "hideParam", param |-> "tubing"],
    [type |-> "showParam", param |-> "tubing"],
    [type |-> "setMode", mode |-> "history"] }

RECURSIVE ActionLists(_)
ActionLists(n) ==
  IF n = 0 THEN {<<>>}
  ELSE ActionLists(n - 1)
         \cup {Append(l, a) : l \in {m \in ActionLists(n - 1) : Len(m) = n - 1},
                               a \in ActionAlphabet}

DashSpecInit ==
  /\ apiKey = <<>>
  /\ ChatInit
  /\ ClockInit
  /\ DashInit
  /\ InterpIdle

\* onActions(actions), called by whoever holds the callback
Dispatch(actions) ==
  LET d0 == [disabledParams |-> disabledParams, mode |-> mode, liveKey |-> liveKey,
             histKey |-> histKey, chartType |-> chartType, threw |-> FALSE]
      d1 == onActions(actions, 1, d0)
  IN  /\ applied' = actions
      /\ hiddenBefore' = disabledParams
      /\ disabledParams' = d1.disabledParams
      /\ mode' = d1.mode
      /\ liveKey' = d1.liveKey
      /\ histKey' = d1.histKey
      /\ chartType' = d1.chartType
      /\ UNCHANGED <<chatVars, interpVars, chipVars, onActionsCalls, clockVars, panelVars>>

DashNext == \E actions \in ActionLists(MaxActions) : Dispatch(actions)

DashSpec == DashSpecInit /\ [][DashNext]_vars

(***************************************************************************)
(* The view state under the handler: it is called with one action at a     *)
(* time, of every kind and value the action type allows                    *)
(***************************************************************************)

ViewActions ==
  {[type |-> "setMode", mode |-> m] : m \in {"realtime", "history"}}
    \cup {[type |-> "setLiveKey", liveKey |-> k] : k \in {"1h", "12h", "24h"}}
    \cup {[type |-> "setHistKey", histKey |-> k] : k \in {"yesterday", "1week", "1month"}}
    \cup {[type |-> "setChartType", chartType |-> c] : c \in {"line", "spline", "area", "column"}}
    \cup {[type |-> "hideParam", param |-> "b_ann"], [type |-> "showAllParams"]}

ViewInit ==
  /\ apiKey = <<>>
  /\ ChatInit
  /\ ClockInit
  /\ DashInit
  /\ InterpIdle

ViewNext == \E a \in ViewActions : Dispatch(<<a>>)

ViewSpec == ViewInit /\ [][ViewNext]_vars

(***************************************************************************)
(* A session against the clock: milliseconds pass, or do not, between the  *)
(* steps of the chat                                                       *)
(***************************************************************************)

\* the milliseconds a session lasts
MaxClock == 3

\* a millisecond passes
Tick ==
  /\ now < MaxClock
  /\ now' = now + 1
  /\ UNCHANGED <<chatVars, dashVars, interpVars, chipVars, handlerVars, panelVars>>

TimedTexts == {" Pressure", "hide tbg"}
TimedOutcomes ==
  { NetworkError,
    Response(200, Completion(<<Choice("null")>>)),
    Response(200, Completion(<<Choice(RemoteResultText)>>)),
    Response(200, Completion(<<Choice(PartialResultText)>>)) }

TimedInit ==
  /\ apiKey \in SessionKeys
  /\ ChatInit
  /\ ClockInit
  /\ DashInit
  /\ InterpIdle

TimedNext ==
  \/ \E text \in TimedTexts : TypeInput(text)
  \/ SendInput
  \/ \E o \in TimedOutcomes : FetchSettles(o)
  \/ Resume
  \/ Tick

TimedSpec == TimedInit /\ [][TimedNext]_vars

(***************************************************************************)
(* The legend: the user toggles parameters while the assistant answers     *)
(***************************************************************************)

\* toggleParam(id), the click on a parameter of the legend
toggleParam(id) ==
  /\ disabledParams' = IF id \in disabledParams
                       THEN disabledParams \ {id} ELSE disabledParams \cup {id}
  /\ UNCHANGED <<mode, liveKey, histKey, chartType, chatVars, interpVars, chipVars,
                 handlerVars, clockVars, panelVars>>

LegendIds == {"tubing", "flowline_t"}
LegendTexts == {"hide b-ann"}
LegendOutcomes == {NetworkError, Response(200, Completion(<<Choice(UnknownParamResultText)>>))}

LegendInit ==
  /\ apiKey \in SessionKeys
  /\ ChatInit
  /\ ClockInit
  /\ DashInit
  /\ InterpIdle

LegendNext ==
  \/ \E id \in LegendIds : toggleParam(id)
  \/ \E text \in LegendTexts : TypeInput(text)
  \/ SendInput
  \/ \E o \in LegendOutcomes : FetchSettles(o)
  \/ Resume

LegendSpec == LegendInit /\ [][LegendNext]_vars

(***************************************************************************)
(* The settings panel: the user opens it, edits the draft, saves or        *)
(* cancels, while the assistant answers                                    *)
(***************************************************************************)

\* the Settings button: opening the panel copies the settings into the draft
ClickSettings ==
  /\ IF ~showSettings
     THEN /\ draftChartType' = chartType
          /\ draftParamSettings' = paramSettings
          /\ selectorChanged' = FALSE
     ELSE UNCHANGED <<draftChartType, draftParamSettings, selectorChanged>>
  /\ showSettings' = ~showSettings
  /\ UNCHANGED <<paramSettings, chatVars, dashVars, interpVars, chipVars, handlerVars,
                 clockVars>>

\* onChange of the chart-type selector of the panel
SelectDraftChartType(ct) ==
  /\ showSettings
  /\ ct # draftChartType
  /\ draftChartType' = ct
  /\ selectorChanged' = TRUE
  /\ UNCHANGED <<showSettings, paramSettings, draftParamSettings, chatVars, dashVars,
                 interpVars, chipVars, handlerVars, clockVars>>

\* onChange of the min or max field of a parameter of the panel
EditDraftRange(pid, field, value) ==
  /\ showSettings
  /\ draftParamSettings' = [draftParamSettings EXCEPT ![pid][field] = value]
  /\ UNCHANGED <<showSettings, draftChartType, paramSettings, selectorChanged, chatVars,
                 dashVars, interpVars, chipVars, handlerVars, clockVars>>

\* the Cancel button, or a click beside the panel
CancelSettings ==
  /\ showSettings
  /\ draftChartType' = chartType
  /\ draftParamSettings' = paramSettings
  /\ showSettings' = FALSE
  /\ UNCHANGED <<paramSettings, selectorChanged, chatVars, dashVars, interpVars, chipVars,
                 handlerVars, clockVars>>

\* the Save button
SaveSettings ==
  /\ showSettings
  /\ chartType' = draftChartType
  /\ paramSettings' = draftParamSettings
  /\ showSettings' = FALSE
  /\ UNCHANGED <<draftChartType, draftParamSettings, selectorChanged, disabledParams, mode,
                 liveKey, histKey, chatVars, interpVars, chipVars, handlerVars, clockVars>>

PanelTexts == {"use area chart"}
PanelChartTypes == {"line", "spline"}
PanelEdits == {<<"tubing", "min", 13000>>, <<"flowline_t", "max", 3000>>}

PanelInit ==
  /\ apiKey = <<>>
  /\ ChatInit
  /\ ClockInit
  /\ DashInit
  /\ InterpIdle

PanelNext ==
  \/ ClickSettings
  \/ \E ct \in PanelChartTypes : SelectDraftChartType(ct)
  \/ \E e \in PanelEdits : EditDraftRange(e[1], e[2], e[3])
  \/ CancelSettings
  \/ SaveSettings
  \/ \E text \in PanelTexts : TypeInput(text)
  \/ SendInput
  \/ Resume

PanelSpec == PanelInit /\ [][PanelNext]_vars

Next ==
  \/ \E text \in TypedTexts : TypeInput(text)
  \/ SendInput
  \/ \E o \in Outcomes : FetchSettles(o)
  \/ Resume

Spec == Init /\ [][Next]_vars

(***************************************************************************)
(* Properties of the remote delegate, checked under Spec                   *)
(***************************************************************************)

\* C2: with a key that is not configured (no variable, an empty or blank
\* value, a value that once trimmed starts with "sk-...") no remote call is
\* ever made, and what callOpenAI resolves with for a query is exactly
\* interpretQuery of that query
C2_NotConfiguredIsLocal ==
  apiKey \in NotConfiguredKeys =>
    /\ remoteCalls = 0
    /\ pc # "fetching"
    /\ pc = "settled" => result = Fulfilled(interpretQuery(query))

C2_Witness ==
  /\ apiKey = <<" sk-...your-key-here">>
  /\ pc = "settled"
  /\ query = "hide tbg"
  /\ result.value.actions = <<[type |-> "hideParam", param |-> "tubing"]>>

\* C3: when the remote call fails (no connection, rate limit or exhausted
\* quota, another status outside 2xx, a successful body that is not JSON or
\* has no choices, a content that is not JSON) callOpenAI does not reject: it
\* resolves with exactly interpretQuery of the user's message
C3_FailureFallsBack ==
  (pc = "settled" /\ remote \in FailedOutcomes) =>
    result = Fulfilled(interpretQuery(query))

C3_Witness ==
  /\ pc = "settled"
  /\ remote = Response(401, ErrorBody("invalid_api_key", "Incorrect API key provided"))
  /\ query = "Pressure"
  /\ result.status = "fulfilled"
  /\ result.value.actions = <<[type |-> "showOnlyParams", params |-> PRESSURE_PARAMS]>>

\* C4 (as stated): a successful answer whose content is missing, or is JSON
\* without the reply and actions fields, resolves with interpretQuery of the
\* user's message, like a content that does not parse
C4_IncompleteFallsBack ==
  (pc = "settled" /\ remote \in IncompleteOutcomes) =>
    result = Fulfilled(interpretQuery(query))

\* C5: with a configured key every query makes exactly one remote call, and a
\* call that failed does not keep a later query from making its own
C5_OneCallPerQuery ==
  apiKey \in ConfiguredKeys => remoteCalls = Cardinality(UserMessages)

C5_Witness ==
  /\ apiKey \in ConfiguredKeys
  /\ lastCallFailed
  /\ pc = "fetching"
  /\ remoteCalls = 2

(***************************************************************************)
(* Properties of the local interpreter, checked under InterpSpec           *)
(***************************************************************************)

\* C6: the reply of interpretQuery is never empty, and its action list is
\* empty exactly when the reply is the fallback reply
C6_EmptyActionsIffFallback ==
  ipc = "done" =>
    /\ Len(out.reply) > 0
    /\ (Len(out.actions) = 0) <=> (out.reply = FallbackReply)

C6_Witness ==
  /\ ipc = "done"
  /\ raw = "xyzzy"
  /\ out.actions = <<>>
  /\ out.reply = FallbackReply

\* C7 (as stated): "switch to history mode", and the queries in which
\* "history" is the only word the interpreter knows, give exactly one action,
\* setMode to history
C7_HistorySetsMode ==
  (ipc = "done" /\ raw \in HistoryQueries) =>
    out.actions = <<[type |-> "setMode", mode |-> "history"]>>

\* C8 (as stated): resolveParams("flowline pressure and flowline
\* temperature") is flowline_p followed by flowline_t
C8_OrderOfMention ==
  (ipc \in {"resolved", "classified", "done"}
     /\ raw = "flowline pressure and flowline temperature") =>
    resolved = <<"flowline_p", "flowline_t">>

\* C8 (corrected): resolveParams("flowline pressure and flowline
\* temperature") is flowline_t followed by flowline_p, the longer alias
\* being looked for first, and holds no other id
C8_LongestAliasFirst ==
  (ipc \in {"resolved", "classified", "done"}
     /\ raw = "flowline pressure and flowline temperature") =>
    resolved = <<"flowline_t", "flowline_p">>

C8_Witness ==
  /\ ipc = "resolved"
  /\ raw = "flowline pressure and flowline temperature"
  /\ Len(resolved) = 2

\* C9: the query "pressure", in any letter case and inside any white space,
\* gives exactly one action: showOnlyParams with tubing, a_ann, b_ann and
\* flowline_p, flowline_t not among them
C9_PressureShowsPressures ==
  LET AnyCase(c) == Alt(<<Lit(c), Lit(ToUpper(c))>>)
      word == Cat(<<Star("space"),
                    AnyCase("p"), AnyCase("r"), AnyCase("e"), AnyCase("s"),
                    AnyCase("s"), AnyCase("u"), AnyCase("r"), AnyCase("e"),
                    Star("space")>>)
  IN  (ipc = "done" /\ Len(raw) \in Ends(word, raw, 0)) =>
        out.actions = <<[type   |-> "showOnlyParams",
                         params |-> <<"tubing", "a_ann", "b_ann", "flowline_p">>]>>

C9_Witness ==
  /\ ipc = "done"
  /\ raw = "\tPRESSURE "
  /\ Len(out.actions) = 1
  /\ out.actions[1].type = "showOnlyParams"

\* C10: a hide request (a hide word and no show word) that reaches the
\* parameter step with n resolved parameters gives n hideParam actions, in
\* the resolver's order, and the reply "Hidden: " with their labels joined by
\* ", " and a full stop; "hide b-annulus and tubing" gives hideParam b_ann,
\* hideParam tubing and
\* "Hidden: B-Ann Pressure, Tubing Pressure."
C10_HideInResolverOrder ==
  /\ (ipc = "done" /\ step = "params" /\ test(reHide, q) /\ ~test(reShow, q)) =>
       /\ out.actions = [k \in 1..Len(resolved) |->
                           [type |-> "hideParam", param |-> resolved[k]]]
       /\ out.reply = "Hidden: "
                        \o join([k \in 1..Len(resolved) |-> PARAM_LABELS[resolved[k]]], ", ")
                        \o "."
  /\ (ipc = "done" /\ raw = "hide b-annulus and tubing") =>
       /\ out.actions = <<[type |-> "hideParam", param |-> "b_ann"],
                          [type |-> "hideParam", param |-> "tubing"]>>
       /\ out.reply = "Hidden: B-Ann Pressure, Tubing Pressure."

C10_Witness ==
  /\ ipc = "done"
  /\ raw = "hide b-annulus and tubing"
  /\ step = "params"
  /\ Len(out.actions) = 2

\* C11: a query with none of the recognised vocabulary (no chart-type word,
\* no live, history or time-window token, no show-all token, no pressure
\* phrasing, no parameter alias), such as "xyzzy", gives no action and the
\* fixed guidance reply
C11_UnknownIsUnclear ==
  LET t == toLowerCase(raw)
      vocabulary ==
        {"line", "spline", "area", "column", "bar",
         "live", "real", "now",
         "histor", "yesterday", "week", "month", "past", "last",
         "1", "24",
         "all", "every", "reset",
         "press"}
          \cup {PARAM_ALIASES[k][1] : k \in 1..Len(PARAM_ALIASES)}
  IN  (ipc = "done" /\ \A w \in vocabulary : ~includes(t, w)) =>
        /\ out.actions = <<>>
        /\ out.reply = FallbackReply

C11_Witness ==
  /\ ipc = "done"
  /\ raw = "what can you do?"
  /\ step = "fallback"
  /\ out.actions = <<>>

\* C17 (as stated): each of the 16 suggestions is interpreted as the one
\* command its text names
C17_SuggestionsAsNamed ==
  LET only(ps) == <<[type |-> "showOnlyParams", params |-> ps]>>
      chart(c) == <<[type |-> "setChartType", chartType |-> c]>>
      hist(h)  == <<[type |-> "setHistKey", histKey |-> h]>>
      live(l)  == <<[type |-> "setLiveKey", liveKey |-> l]>>
      named ==
        CASE raw = "Show only pressure sensors"     -> only(<<"tubing", "a_ann", "b_ann", "flowline_p">>)
          [] raw = "Switch to 1-week history"       -> hist("1week")
          [] raw = "Show flowline temperature only" -> only(<<"flowline_t">>)
          [] raw = "Switch to spline chart"         -> chart("spline")
          [] raw = "Show all parameters"            -> <<[type |-> "showAllParams"]>>
          [] raw = "Show last 24 hours live data"   -> live("24h")
          [] raw = "Switch to area chart"           -> chart("area")
          [] raw = "Show yesterday's data"          -> hist("yesterday")
          [] raw = "Hide B-annulus pressure"        -> <<[type |-> "hideParam", param |-> "b_ann"]>>
          [] raw = "Switch to line chart"           -> chart("line")
          [] raw = "Show last 12 hours"             -> live("12h")
          [] raw = "Switch to column chart"         -> chart("column")
          [] raw = "Show last 1 month history"      -> hist("1month")
          [] raw = "Show tubing pressure only"      -> only(<<"tubing">>)
          [] raw = "Switch to realtime mode"        -> <<[type |-> "setMode", mode |-> "realtime"]>>
          [] raw = "Show A-annulus and tubing only" -> only(<<"a_ann", "tubing">>)
  IN  (ipc = "done" /\ raw \in Range(ALL_SUGGESTIONS)) => out.actions = named

\* C18: when the query holds one of line, spline, area, column, bar as a
\* whole word and an action verb or a chart noun, the chart-type step commits
\* and the result is exactly one setChartType, for the first chart-type word
\* of the text (bar meaning column), whatever else the query holds; without a
\* verb or noun the step does not commit
C18_ChartTypeFirst ==
  LET kinds == {"line", "spline", "area", "column", "bar"}
      context == {"switch", "change", "use", "set", "convert", "make",
                  "chart", "graph", "plot", "type", "view"}
      at(w) == {i \in 0..(Len(q) - Len(w)) :
                  /\ SubSeq(q, i + 1, i + Len(w)) = w
                  /\ i = 0 \/ ~IsWordChar(CharAt(q, i))
                  /\ i + Len(w) = Len(q) \/ ~IsWordChar(CharAt(q, i + Len(w) + 1))}
      present == {w \in kinds : at(w) # {}}
      firstAt(w) == CHOOSE i \in at(w) : \A j \in at(w) : i <= j
      first == CHOOSE w \in present : \A v \in present : firstAt(w) <= firstAt(v)
      inContext == \E c \in context : includes(q, c)
  IN  ipc = "done" =>
        /\ (present # {} /\ inContext) =>
             /\ step = "chartType"
             /\ out.actions = <<[type      |-> "setChartType",
                                 chartType |-> IF first = "bar" THEN "column" ELSE first]>>
        /\ ~inContext => step # "chartType"

C18_Witness ==
  /\ ipc = "done"
  /\ raw = "plot tubing live as area for last 1 month"
  /\ out.actions = <<[type |-> "setChartType", chartType |-> "area"]>>

\* C19 (as stated): when the live step commits and the query names an hour
\* count N of 1, 12 or 24, as "N h", "N hour" or "last N", the result is
\* exactly setLiveKey with the key of that N; when it names none the result is
\* exactly setMode realtime
C19_LiveKeyAsNamed ==
  LET hours == {"1", "12", "24"}
      namesHours(n) ==
        \/ test(Cat(<<WB, Lit(n), Star("space"), Lit("h")>>), q)
        \/ test(Cat(<<Lit("last"), Plus("space"), Lit(n), WB>>), q)
  IN  (ipc = "done" /\ step = "live") =>
        /\ \A n \in hours :
             namesHours(n) => out.actions = <<[type |-> "setLiveKey", liveKey |-> n \o "h"]>>
        /\ (\A n \in hours : ~namesHours(n)) =>
             out.actions = <<[type |-> "setMode", mode |-> "realtime"]>>

\* C20: when the history step commits it returns exactly one action, decided
\* in the order yesterday, then one month, then one week, then the history
\* mode alone; a query matching several gets the earliest only
C20_HistoryOrder ==
  (ipc = "done" /\ step = "history") =>
    out.actions =
      << IF includes(q, "yesterday") THEN [type |-> "setHistKey", histKey |-> "yesterday"]
         ELSE IF test(reMonth, q)    THEN [type |-> "setHistKey", histKey |-> "1month"]
         ELSE IF test(reWeek, q)     THEN [type |-> "setHistKey", histKey |-> "1week"]
         ELSE [type |-> "setMode", mode |-> "history"] >>

C20_Witness ==
  /\ ipc = "done"
  /\ raw = "past 7 days of the 30 day month"
  /\ step = "history"
  /\ out.actions = <<[type |-> "setHistKey", histKey |-> "1month"]>>

\* C21: in the parameter step, with its resolved parameters, hideParam
\* actions are returned exactly when the query holds a hide word (hide,
\* remove, turn off, disable, off) as a whole word and no show word (show,
\* display, enable, turn on, on) as a whole word; with both, or with neither,
\* the parameters are shown, by showParam or showOnlyParams, and none is hidden
C21_HideOnlyWithoutShow ==
  LET word(w) == \E i \in 0..(Len(q) - Len(w)) :
                   /\ SubSeq(q, i + 1, i + Len(w)) = w
                   /\ i = 0 \/ ~IsWordChar(CharAt(q, i))
                   /\ i + Len(w) = Len(q) \/ ~IsWordChar(CharAt(q, i + Len(w) + 1))
      hideWord == \E w \in {"hide", "remove", "turn off", "disable", "off"} : word(w)
      showWord == \E w \in {"show", "display", "enable", "turn on", "on"} : word(w)
      types == {out.actions[k].type : k \in 1..Len(out.actions)}
  IN  (ipc = "done" /\ step = "params") =>
        /\ Len(resolved) > 0
        /\ ("hideParam" \in types) <=> (hideWord /\ ~showWord)
        /\ (hideWord /\ ~showWord) => types = {"hideParam"}
        /\ ~(hideWord /\ ~showWord) => types \in {{"showParam"}, {"showOnlyParams"}}

C21_Witness ==
  /\ ipc = "done"
  /\ raw = "turn off tubing and turn on temp"
  /\ step = "params"
  /\ out.actions = <<[type |-> "showParam", param |-> "tubing"],
                     [type |-> "showParam", param |-> "flowline_t"]>>

\* C22 (as stated): in the parameter step a query with the word "only" gives
\* one showOnlyParams of exactly the resolved parameters, and a query without
\* it one action for each resolved parameter, all hideParam or all showParam,
\* in the resolver's order
C22_OnlyMeansShowOnly ==
  (ipc = "done" /\ step = "params") =>
    IF includes(q, "only")
    THEN out.actions = <<[type |-> "showOnlyParams", params |-> resolved]>>
    ELSE \E t \in {"hideParam", "showParam"} :
           out.actions = [k \in 1..Len(resolved) |-> [type |-> t, param |-> resolved[k]]]

\* C22 (corrected): in the parameter step a hide request (a hide word and no
\* show word) gives one hideParam for each resolved parameter, with or
\* without "only"; any other query with "only" gives one showOnlyParams of
\* exactly the resolved parameters; any other query without it one showParam
\* for each resolved parameter; the actions follow the resolver's order
C22_OnlyUnlessHiding ==
  LET each(t) == [k \in 1..Len(resolved) |-> [type |-> t, param |-> resolved[k]]]
      hiding  == test(reHide, q) /\ ~test(reShow, q)
  IN  (ipc = "done" /\ step = "params") =>
        out.actions =
          IF hiding THEN each("hideParam")
          ELSE IF includes(q, "only") THEN <<[type |-> "showOnlyParams", params |-> resolved]>>
          ELSE each("showParam")

C22_Witness ==
  /\ ipc = "done"
  /\ raw = "hide tubing only"
  /\ step = "params"
  /\ out.actions = <<[type |-> "hideParam", param |-> "tubing"]>>

\* C23: resolveParams(q) holds a catalogue identifier exactly when one of its
\* aliases is a substring of q, holds nothing twice and nothing outside the
\* catalogue, and is ordered by the length of the longest alias of each
\* identifier found in q, longest first, equal lengths in the order of the
\* alias table, and not by the place in the text; it is empty when no alias
\* is found
C23_ResolvedByLongestAlias ==
  LET alias(k)  == PARAM_ALIASES[k][1]
      hits(id)  == {k \in 1..Len(PARAM_ALIASES) :
                      PARAM_ALIASES[k][2] = id /\ includes(q, alias(k))}
      best(id)  == CHOOSE k \in hits(id) :
                     \A j \in hits(id) :
                       \/ Len(alias(j)) < Len(alias(k))
                       \/ Len(alias(j)) = Len(alias(k)) /\ k <= j
      before(a, b) ==
        \/ Len(alias(best(a))) > Len(alias(best(b)))
        \/ Len(alias(best(a))) = Len(alias(best(b))) /\ best(a) < best(b)
      catalogue == {"tubing", "a_ann", "b_ann", "flowline_p", "flowline_t"}
  IN  ipc \in {"resolved", "classified", "done"} =>
        /\ \A id \in catalogue : (\E k \in 1..Len(resolved) : resolved[k] = id) <=> hits(id) # {}
        /\ \A k \in 1..Len(resolved) : resolved[k] \in catalogue
        /\ \A j, k \in 1..Len(resolved) : j < k => resolved[j] # resolved[k]
        /\ \A j, k \in 1..Len(resolved) : j < k => before(resolved[j], resolved[k])
        /\ (\A id \in catalogue : hits(id) = {}) => resolved = <<>>

C23_Witness ==
  /\ ipc = "resolved"
  /\ raw = "fl temp, fl press, bann, aann, tub"
  /\ resolved = <<"flowline_p", "flowline_t", "a_ann", "b_ann", "tubing">>

\* C24: intents never combine: interpretQuery returns at most one action,
\* except from the parameter step, which may return several, then all
\* hideParam or all showParam, no two for the same parameter, so 5 at most
C24_IntentsNeverCombine ==
  ipc = "done" =>
    \/ Len(out.actions) <= 1
    \/ /\ step = "params"
       /\ Len(out.actions) <= 5
       /\ \E t \in {"hideParam", "showParam"} :
            \A k \in 1..Len(out.actions) : out.actions[k].type = t
       /\ \A j, k \in 1..Len(out.actions) :
            j # k => out.actions[j].param # out.actions[k].param

C24_Witness ==
  /\ ipc = "done"
  /\ raw = "hide tubing b-ann a-ann flp flt"
  /\ step = "params"
  /\ Len(out.actions) = 5

(***************************************************************************)
(* Properties of a session with the chips, checked under SessionSpec       *)
(***************************************************************************)

\* C12: a send whose text is empty or blank, or that comes while a query is
\* outstanding, changes nothing: no message is appended, neither the
\* interpreter nor the remote service is called, no action reaches the
\* dashboard, and loading stays as it is
C12_RejectedSendIsNoOp ==
  [][ ( (SendInput /\ trim(input) = "")
          \/ (\E k \in 1..Len(visibleChips) : (sendChip(visibleChips[k]) /\ loading)) )
      => (UNCHANGED <<messages, loading, pc, query, remote, result, remoteCalls,
                      input, dashVars, handlerVars, clockVars, panelVars>>)
    ]_vars

C12_Witness ==
  /\ pc = "fetching"
  /\ loading
  /\ messages = <<Greeting, [id |-> 1, role |-> "user", text |-> "hide tbg"]>>
  /\ Cardinality(usedChips) = 2
  /\ remoteCalls = 1

\* C13: at most one query is outstanding at any time, whatever the order of
\* typed sends, Enter and chip clicks: after the greeting the transcript goes
\* query, answer, query, answer, and a query is without its answer exactly
\* while send is under way
C13_SingleFlight ==
  /\ \A k \in 2..Len(messages) : (messages[k].role = "user") <=> (k % 2 = 0)
  /\ (Len(messages) % 2 = 0) <=> (pc # "idle")
  /\ loading <=> (pc # "idle")

C13_Witness ==
  /\ Len(messages) = 4
  /\ pc = "fetching"
  /\ messages[2].text \in usedChips
  /\ messages[4].text = "hide tbg"
  /\ Cardinality(usedChips) = 2

(***************************************************************************)
(* Properties of the hand-over to the dashboard, checked under Spec        *)
(***************************************************************************)

\* C14 (as stated): for every query answered, whatever its result, onActions
\* has been called exactly once
C14_InvokedForEveryQuery ==
  onActionsCalls = Cardinality({k \in 2..Len(messages) : messages[k].role # "user"})

\* C14 (corrected): onActions is called exactly once, with the list in its
\* order, for every query whose result has a list of actions that is not
\* empty, and not at all for the others; the call has been made by the time
\* the answer is in the transcript, be it the reply or, when the dashboard
\* threw on the list, the error message
C14_InvokedOncePerActionList ==
  LET withActions == {k \in 2..Len(messages) :
                        /\ messages[k].role = "assistant"
                        /\ "actions" \in DOMAIN messages[k]
                        /\ Len(messages[k].actions) > 0}
      thrownIn    == {k \in 2..Len(messages) :
                        /\ messages[k].role = "error"
                        /\ messages[k].text
                             = "Error: Cannot read properties of undefined (reading 'includes')"}
      called      == withActions \cup thrownIn
      latest      == CHOOSE k \in called : \A j \in called : j <= k
  IN  /\ onActionsCalls = Cardinality(called)
      /\ (called # {} /\ latest \in withActions) => applied = messages[latest].actions

C14_Witness ==
  /\ pc = "idle"
  /\ Len(messages) = 5
  /\ messages[3].text = FallbackReply
  /\ messages[5].actions = <<[type |-> "hideParam", param |-> "tubing"]>>
  /\ onActionsCalls = 1

\* C28 (as stated): when the answer to a query is an error message, none of
\* its actions has reached the view state: the hidden set, mode, liveKey,
\* histKey and chartType are as they were before the query, also when the
\* dashboard throws part of the way through a list of the remote service
C28_ErrorLeavesViewUntouched ==
  [][ (messages' # messages /\ messages'[Len(messages')].role = "error")
        => (UNCHANGED <<disabledParams, mode, liveKey, histKey, chartType>>)
    ]_vars

(***************************************************************************)
(* Properties of the transcript, checked under TimedSpec                   *)
(***************************************************************************)

\* C26: the transcript only grows at its end, and every accepted send makes
\* two appends: first the user's message with the trimmed query, loading
\* becoming true, then, when the interpretation is there, exactly one message
\* of role assistant or error, loading becoming false with it, on the error
\* path as on the other; loading changes at no other time
C26_TwoAppendsPerSend ==
  [][ LET n    == Len(messages)
          last == messages'[n + 1]
      IN  /\ (messages' # messages) =>
                (/\ Len(messages') = n + 1
                 /\ SubSeq(messages', 1, n) = messages
                 /\ IF messages[n].role # "user"
                    THEN /\ last.role = "user"
                         /\ last.text = trim(input)
                         /\ last.text # ""
                         /\ loading'
                    ELSE /\ last.role \in {"assistant", "error"}
                         /\ ~loading')
          /\ (loading' # loading) => (messages' # messages)
    ]_vars

C26_Witness ==
  /\ Len(messages) = 5
  /\ messages[2].text = "Pressure"
  /\ messages[3].role = "error"
  /\ messages[5].role = "assistant"
  /\ messages[5].id > messages[2].id
  /\ ~loading

\* C27 (as stated): no two messages of the transcript have the same id, also
\* when the query and its answer are appended within one millisecond
C27_UniqueIds ==
  \A j, k \in 1..Len(messages) : j # k => messages[j].id # messages[k].id

(***************************************************************************)
(* Properties of the legend, checked under LegendSpec                      *)
(***************************************************************************)

\* C29 (as stated): the hidden set holds catalogue identifiers only, after
\* any toggles of the legend and any lists of actions, of the local
\* interpreter or of the remote service
C29_HiddenWithinCatalogue ==
  disabledParams \subseteq {"tubing", "a_ann", "b_ann", "flowline_p", "flowline_t"}

(***************************************************************************)
(* Properties of the settings panel, checked under PanelSpec               *)
(***************************************************************************)

\* C30 (as stated): Save does not lose a chart type set by the assistant:
\* when the chart type was not selected in the panel since it opened,
\* chartType after Save is chartType before Save, also when the assistant set
\* it while the panel was open; Cancel changes neither chartType nor
\* paramSettings
C30_SaveKeepsChartType ==
  [][ /\ (SaveSettings /\ ~selectorChanged) => (chartType' = chartType)
      /\ (CancelSettings) => (UNCHANGED <<chartType, paramSettings>>)
    ]_vars

(***************************************************************************)
(* Properties of the dashboard's handler, checked under DashSpec           *)
(***************************************************************************)

\* C15: the handler applies a list in its order: showOnlyParams{P} makes the
\* hidden set the catalogue minus P, showAllParams empties it, hideParam{p}
\* adds p, showParam{p} removes p; so after a list a parameter is hidden as
\* the last action about it says, and as before the list when none is about it
C15_HiddenSetIsFold ==
  LET about(a, p) ==
        \/ a.type \in {"showOnlyParams", "showAllParams"}
        \/ a.type \in {"hideParam", "showParam"} /\ a.param = p
      hides(a, p) ==
        \/ a.type = "showOnlyParams" /\ \A k \in 1..Len(a.params) : a.params[k] # p
        \/ a.type = "hideParam"
      last(p) == CHOOSE k \in 1..Len(applied) :
                   /\ about(applied[k], p)
                   /\ \A j \in (k + 1)..Len(applied) : ~about(applied[j], p)
      catalogue == {"tubing", "a_ann", "b_ann", "flowline_p", "flowline_t"}
  IN  /\ disabledParams \subseteq catalogue
      /\ \A p \in catalogue :
           p \in disabledParams <=>
             IF \E k \in 1..Len(applied) : about(applied[k], p)
             THEN hides(applied[last(p)], p)
             ELSE p \in hiddenBefore

C15_Witness ==
  /\ hiddenBefore = {"flowline_t"}
  /\ applied = <<[type |-> "hideParam", param |-> "tubing"],
                 [type |-> "showOnlyParams", params |-> <<"flowline_t", "tubing">>]>>
  /\ disabledParams = {"a_ann", "b_ann", "flowline_p"}

(***************************************************************************)
(* Properties of the view state, checked under ViewSpec                    *)
(***************************************************************************)

\* C25 (as stated): setMode, setLiveKey, setHistKey and setChartType each
\* overwrite their one field of the view state, mode, liveKey, histKey and
\* chartType, and leave every other field, the hidden set among them, as it
\* was
C25_SingleFieldOverwrite ==
  [][ \A a \in ViewActions :
        (Dispatch(<<a>>)) =>
          (/\ (a.type = "setMode") =>
                (mode' = a.mode /\ UNCHANGED <<liveKey, histKey, chartType, disabledParams>>)
           /\ (a.type = "setLiveKey") =>
                (liveKey' = a.liveKey /\ UNCHANGED <<mode, histKey, chartType, disabledParams>>)
           /\ (a.type = "setHistKey") =>
                (histKey' = a.histKey /\ UNCHANGED <<mode, liveKey, chartType, disabledParams>>)
           /\ (a.type = "setChartType") =>
                (chartType' = a.chartType /\ UNCHANGED <<mode, liveKey, histKey, disabledParams>>)
           /\ UNCHANGED <<paramSettings, showSettings>>)
    ]_vars

\* C25 (corrected): setMode and setChartType overwrite mode and chartType
\* and nothing else; setLiveKey overwrites liveKey and makes the mode
\* realtime, setHistKey overwrites histKey and makes the mode history; none
\* of the four touches any other field of the view state, the hidden set
\* among them
C25_KeysCarryTheirMode ==
  [][ \A a \in ViewActions :
        (Dispatch(<<a>>)) =>
          (/\ (a.type = "setMode") =>
                (mode' = a.mode /\ UNCHANGED <<liveKey, histKey, chartType, disabledParams>>)
           /\ (a.type = "setLiveKey") =>
                (/\ liveKey' = a.liveKey
                 /\ mode' = "realtime"
                 /\ UNCHANGED <<histKey, chartType, disabledParams>>)
           /\ (a.type = "setHistKey") =>
                (/\ histKey' = a.histKey
                 /\ mode' = "history"
                 /\ UNCHANGED <<liveKey, chartType, disabledParams>>)
           /\ (a.type = "setChartType") =>
                (chartType' = a.chartType /\ UNCHANGED <<mode, liveKey, histKey, disabledParams>>)
           /\ UNCHANGED <<paramSettings, showSettings>>)
    ]_vars

C25_Witness ==
  /\ applied = <<[type |-> "setLiveKey", liveKey |-> "12h"]>>
  /\ liveKey = "12h"
  /\ mode = "realtime"
  /\ histKey = "1week"
  /\ chartType = "area"
  /\ disabledParams = {"b_ann"}

(***************************************************************************)
(* Properties of the chips, checked under ChipSpec                         *)
(***************************************************************************)

\* C16 (as stated): a suggestion that has been clicked is never again among
\* the chips on show
C16_UsedChipNeverShown ==
  \A k \in 1..Len(visibleChips) : visibleChips[k] \notin usedChips
=============================================================================
